---- MODULE Spec2Model ----
(***************************************************************************)
(* State-machine model of the RealEstateNFT Soroban contract               *)
(* (contracts/hello-world/src/lib.rs).                                     *)
(*                                                                         *)
(* The contract's instance storage is the state: the admin entry, the      *)
(* property counter, the stats record, one Property per id, one            *)
(* OwnershipShare per (property id, owner) and one id vector per owner.    *)
(* Every contract entry point is one action: the whole invocation, run as  *)
(* one host transaction.  A call that panics is rolled back by the host,   *)
(* so it leaves the storage as it was.  The action leaves the invocation   *)
(* and its outcome in `call`, `result` and `ret` for the invoker; Return   *)
(* hands them over and the contract is ready for the next invocation.      *)
(* The string fields of Property (title, location, description,            *)
(* image_url) and price_per_share are stored and returned but never read   *)
(* by any operation; they are left out of the record.                      *)
(* u64 arithmetic is checked (a panic on overflow); MaxU stands for        *)
(* u64::MAX.                                                               *)
(***************************************************************************)
EXTENDS Integers, Sequences, FiniteSets, TLC

\* ---------------------------------------------------------------- bounds
MaxRegs == 2       \* bound on the number of register_property calls
MaxTx == 2         \* bound on stats.total_transactions
MaxU == 2          \* stand-in for u64::MAX in share arithmetic

Addr == {"a1", "a2"}             \* identities
Times == {1}                     \* ledger timestamps handed to a call
ShareVals == 0 .. 2              \* `shares` arguments
TotalVals == {1}                 \* `total_shares` arguments
IdVals == 1 .. MaxRegs           \* `property_id` arguments
StartVals == 0 .. MaxRegs + 1    \* `start_idx` arguments of list_properties
LimitVals == 0 .. MaxRegs        \* `limit` arguments of list_properties

NoAdmin == "none"                \* CONTRACT_ADMIN entry absent
Idle == [op |-> "idle"]          \* no invocation in progress

VARIABLES
    admin,       \* CONTRACT_ADMIN entry, NoAdmin when absent
    counter,     \* PROPERTY_COUNTER entry as read with unwrap_or(0)
    stats,       \* PROPERTY_STATS entry as read by get_property_stats
    props,       \* PropertyRegistry::Property(id) entries
    owns,        \* OwnershipRegistry::Ownership(id, owner) entries
    userProps,   \* UserProperties::Properties(owner) as read with unwrap_or(empty)
    call,        \* the invocation: entry point, arguments and invoker; Idle
                 \* between invocations
    result,      \* its outcome: "ok" or the failure; "idle" between invocations
    ret,         \* its return value (register_property), 0 otherwise
    issued,      \* the ids returned by register_property so far, in order
    everHeld     \* the (property id, owner) pairs that have held a balance > 0

storage == <<admin, counter, stats, props, owns, userProps>>
vars == <<admin, counter, stats, props, owns, userProps, call, result, ret,
          issued, everHeld>>

\* ------------------------------------------------------------ data model
Property(id, total, ts) ==
    [property_id |-> id, total_shares |-> total,
     registration_time |-> ts, is_verified |-> FALSE]

OwnershipShare(id, o, n, ts) ==
    [property_id |-> id, owner |-> o, shares |-> n, purchase_time |-> ts]

ZeroStats ==
    [total_properties |-> 0, verified_properties |-> 0,
     total_owners |-> 0, total_transactions |-> 0]

EmptyMap == [k \in {} |-> 0]

\* storage().instance().set(key, value)
Put(m, k, v) == [x \in (DOMAIN m) \cup {k} |-> IF x = k THEN v ELSE m[x]]

\* storage().instance().has(key) for the keyed families
Has(m, k) == k \in DOMAIN m

\* a require_auth that lets every invoker through
require_auth_open(who, caller) == TRUE

\* Address::require_auth: passes iff the invoker of the call is the identity
require_auth(who, caller) == who = caller

Init ==
    /\ admin = NoAdmin
    /\ counter = 0
    /\ stats = ZeroStats
    /\ props = EmptyMap
    /\ owns = EmptyMap
    /\ userProps = [a \in Addr |-> << >>]
    /\ call = Idle
    /\ result = "idle"
    /\ ret = 0
    /\ issued = << >>
    /\ everHeld = {}

\* ------------------------------------------------------------ initialize
\* initialize without its has(CONTRACT_ADMIN) guard
initialize_err_unguarded(a) == "ok"

initialize_err(a) ==
    IF admin # NoAdmin THEN "AlreadyInitialized" ELSE "ok"

initialize(a) ==
    /\ call = Idle
    /\ call' = [op |-> "initialize", admin |-> a]
    /\ result' = initialize_err(a)
    /\ ret' = 0
    /\ UNCHANGED <<issued, everHeld>>
    /\ IF initialize_err(a) = "ok"
       THEN /\ admin' = a
            /\ stats' = ZeroStats
            /\ counter' = 0
            /\ UNCHANGED <<props, owns, userProps>>
       ELSE UNCHANGED storage

\* ---------------------------------------------------------------- views
get_property_stats == stats

\* the balance an ownership map m holds for (p, o)
Bal(m, p, o) == IF Has(m, <<p, o>>) THEN m[<<p, o>>].shares ELSE 0

\* the pairs among (p, o1), (p, o2) that hold a balance > 0 in m
Holding(m, p, o1, o2) == {k \in {<<p, o1>>, <<p, o2>>} : Bal(m, k[1], k[2]) > 0}

\* a first-owner test that always answers yes
is_new_owner_always(p, o) == TRUE

\* existing_ownership.is_none(): no ownership record is stored for (p, o)
is_new_owner(p, o) == ~Has(owns, <<p, o>>)

get_ownership(p, o) ==
    IF Has(owns, <<p, o>>) THEN owns[<<p, o>>] ELSE OwnershipShare(p, o, 0, 0)

get_user_properties(o) == userProps[o]

\* a stats update that counts an owner on every purchase or transfer
owner_stats_every(is_new) ==
    [get_property_stats EXCEPT !.total_owners = @ + 1,
                               !.total_transactions = @ + 1]

\* the stats update of a purchase or transfer: one more transaction, and
\* one more owner when the receiving pair had no record
owner_stats(is_new) ==
    IF is_new
    THEN [get_property_stats EXCEPT !.total_owners = @ + 1,
                                    !.total_transactions = @ + 1]
    ELSE [get_property_stats EXCEPT !.total_transactions = @ + 1]

\* a push_back that leaves the list as it was
push_back_dropped(list, p) == list

\* Vec::push_back
push_back(list, p) == Append(list, p)

\* the loop of get_total_shares_owned over the owner's property list
RECURSIVE total_shares_loop(_, _)
total_shares_loop(properties, owner) ==
    IF properties = << >> THEN 0
    ELSE get_ownership(Head(properties), owner).shares
             + total_shares_loop(Tail(properties), owner)

\* a get_total_shares_owned that stops after the first property of the list
get_total_shares_owned_first(owner) ==
    LET properties == get_user_properties(owner)
    IN [ok |-> TRUE,
        value |-> IF properties = << >> THEN 0
                  ELSE get_ownership(Head(properties), owner).shares]

\* get_total_shares_owned: the u64 total, or a panic when it overflows
get_total_shares_owned(owner) ==
    LET total == total_shares_loop(get_user_properties(owner), owner)
    IN IF total > MaxU THEN [ok |-> FALSE, value |-> 0]
       ELSE [ok |-> TRUE, value |-> total]

\* a list_properties upper bound that is not clamped to the counter
list_properties_end_unclamped(start_idx, limit) == start_idx + limit

\* end_idx of list_properties: start_idx + limit, clamped to the counter
list_properties_end(start_idx, limit) ==
    IF start_idx + limit > counter THEN counter ELSE start_idx + limit

\* the loop of list_properties from index i to end_idx
RECURSIVE list_properties_loop(_, _)
list_properties_loop(i, end_idx) ==
    IF i > end_idx THEN << >>
    ELSE (IF i > 0 /\ Has(props, i) THEN <<props[i]>> ELSE << >>)
             \o list_properties_loop(i + 1, end_idx)

list_properties(start_idx, limit) ==
    list_properties_loop(start_idx, list_properties_end(start_idx, limit))

\* ------------------------------------------------------ register_property
register_property(total, ts) ==
    /\ Len(issued) < MaxRegs
    /\ LET property_counter == counter + 1
           property == Property(property_counter, total, ts)
       IN /\ props' = Put(props, property_counter, property)
          /\ counter' = property_counter
          /\ stats' = [get_property_stats EXCEPT
                          !.total_properties = @ + 1]
          /\ ret' = property_counter
          /\ issued' = Append(issued, property_counter)
    /\ call = Idle
    /\ call' = [op |-> "register_property", total_shares |-> total,
                timestamp |-> ts]
    /\ result' = "ok"
    /\ UNCHANGED <<admin, owns, userProps, everHeld>>

\* -------------------------------------------------------- verify_property
\* verify_property without its already-verified check
verify_property_err_reverify(p, caller) ==
    IF admin = NoAdmin THEN "NotInitialized"
    ELSE IF ~require_auth(admin, caller) THEN "NotAuthorized"
    ELSE IF ~Has(props, p) THEN "NotFound"
    ELSE "ok"

verify_property_err(p, caller) ==
    IF admin = NoAdmin THEN "NotInitialized"
    ELSE IF ~require_auth(admin, caller) THEN "NotAuthorized"
    ELSE IF ~Has(props, p) THEN "NotFound"
    ELSE IF props[p].is_verified THEN "AlreadyVerified"
    ELSE "ok"

verify_property(p, caller) ==
    /\ call = Idle
    /\ call' = [op |-> "verify_property", property_id |-> p, caller |-> caller]
    /\ result' = verify_property_err(p, caller)
    /\ ret' = 0
    /\ UNCHANGED <<issued, everHeld>>
    /\ IF verify_property_err(p, caller) = "ok"
       THEN /\ props' = Put(props, p, [props[p] EXCEPT !.is_verified = TRUE])
            /\ stats' = [get_property_stats EXCEPT
                            !.verified_properties = @ + 1]
            /\ UNCHANGED <<admin, counter, owns, userProps>>
       ELSE UNCHANGED storage

\* -------------------------------------------------------- purchase_shares
\* purchase_shares without its is_verified check
purchase_shares_err_unverified(p, shares, buyer, caller) ==
    IF ~require_auth(buyer, caller) THEN "NotAuthorized"
    ELSE IF ~Has(props, p) THEN "NotFound"
    ELSE IF Has(owns, <<p, buyer>>) /\ shares + owns[<<p, buyer>>].shares > MaxU
         THEN "Overflow"
    ELSE "ok"

purchase_shares_err(p, shares, buyer, caller) ==
    IF ~require_auth(buyer, caller) THEN "NotAuthorized"
    ELSE IF ~Has(props, p) THEN "NotFound"
    ELSE IF ~props[p].is_verified THEN "NotVerified"
    ELSE IF Has(owns, <<p, buyer>>) /\ shares + owns[<<p, buyer>>].shares > MaxU
         THEN "Overflow"
    ELSE "ok"

purchase_shares(p, shares, buyer, caller, ts) ==
    /\ call = Idle
    /\ call' = [op |-> "purchase_shares", property_id |-> p, shares |-> shares,
                buyer |-> buyer, caller |-> caller, timestamp |-> ts]
    /\ result' = purchase_shares_err(p, shares, buyer, caller)
    /\ ret' = 0
    /\ UNCHANGED issued
    /\ IF purchase_shares_err(p, shares, buyer, caller) = "ok"
       THEN /\ stats.total_transactions < MaxTx
            /\ LET ownership_key == <<p, buyer>>
                   new_shares == shares + Bal(owns, p, buyer)
                   user_properties ==
                       IF is_new_owner(p, buyer)
                       THEN push_back(get_user_properties(buyer), p)
                       ELSE get_user_properties(buyer)
               IN /\ stats' = owner_stats(is_new_owner(p, buyer))
                  /\ owns' = Put(owns, ownership_key,
                                 OwnershipShare(p, buyer, new_shares, ts))
                  /\ userProps' = [userProps EXCEPT ![buyer] = user_properties]
            /\ everHeld' = everHeld \cup Holding(owns', p, buyer, buyer)
            /\ UNCHANGED <<admin, counter, props>>
       ELSE UNCHANGED <<storage, everHeld>>

\* -------------------------------------------------------- transfer_shares
\* transfer_shares without its balance check
transfer_shares_err_unchecked(p, from, to, shares, caller) ==
    IF ~require_auth(from, caller) THEN "NotAuthorized"
    ELSE IF ~Has(owns, <<p, from>>) THEN "NoBalance"
    ELSE IF Has(owns, <<p, to>>) /\ owns[<<p, to>>].shares + shares > MaxU
         THEN "Overflow"
    ELSE "ok"

transfer_shares_err(p, from, to, shares, caller) ==
    IF ~require_auth(from, caller) THEN "NotAuthorized"
    ELSE IF ~Has(owns, <<p, from>>) THEN "NoBalance"
    ELSE IF owns[<<p, from>>].shares < shares THEN "InsufficientShares"
    ELSE IF Has(owns, <<p, to>>) /\ owns[<<p, to>>].shares + shares > MaxU
         THEN "Overflow"
    ELSE "ok"

\* the ownership writes of a transfer that drops a sender record emptied by it
transfer_shares_owns_prune(p, from, to, shares, ts) ==
    LET from_key == <<p, from>>
        to_key == <<p, to>>
        from_ownership == [owns[from_key] EXCEPT !.shares = @ - shares]
        new_to_ownership ==
            IF ~is_new_owner(p, to)
            THEN OwnershipShare(p, to, owns[to_key].shares + shares, ts)
            ELSE OwnershipShare(p, to, shares, ts)
        m == Put(Put(owns, from_key, from_ownership), to_key, new_to_ownership)
        gone == IF from # to /\ from_ownership.shares = 0 THEN {from_key} ELSE {}
    IN [k \in (DOMAIN m) \ gone |-> m[k]]

\* the two ownership writes, in the order the code issues them
transfer_shares_owns(p, from, to, shares, ts) ==
    LET from_key == <<p, from>>
        to_key == <<p, to>>
        from_ownership == [owns[from_key] EXCEPT !.shares = @ - shares]
        new_to_ownership ==
            IF ~is_new_owner(p, to)
            THEN OwnershipShare(p, to, owns[to_key].shares + shares, ts)
            ELSE OwnershipShare(p, to, shares, ts)
    IN Put(Put(owns, from_key, from_ownership), to_key, new_to_ownership)

transfer_shares(p, from, to, shares, caller, ts) ==
    /\ call = Idle
    /\ call' = [op |-> "transfer_shares", property_id |-> p, from |-> from,
                to |-> to, shares |-> shares, caller |-> caller,
                timestamp |-> ts]
    /\ result' = transfer_shares_err(p, from, to, shares, caller)
    /\ ret' = 0
    /\ UNCHANGED issued
    /\ IF transfer_shares_err(p, from, to, shares, caller) = "ok"
       THEN /\ stats.total_transactions < MaxTx
            /\ LET to_is_new == is_new_owner(p, to)
               IN /\ userProps' =
                        IF to_is_new
                        THEN [userProps EXCEPT
                                 ![to] = push_back(get_user_properties(to), p)]
                        ELSE userProps
                  /\ stats' = owner_stats(to_is_new)
            /\ owns' = transfer_shares_owns(p, from, to, shares, ts)
            /\ everHeld' = everHeld \cup Holding(owns', p, from, to)
            /\ UNCHANGED <<admin, counter, props>>
       ELSE UNCHANGED <<storage, everHeld>>

\* the invocation ends: its outcome goes to the invoker
Return ==
    /\ call # Idle
    /\ call' = Idle
    /\ result' = "idle"
    /\ ret' = 0
    /\ UNCHANGED <<storage, issued, everHeld>>

\* ------------------------------------------------------------------ next
Next ==
    \/ Return
    \/ \E a \in Addr : initialize(a)
    \/ \E total \in TotalVals, ts \in Times : register_property(total, ts)
    \/ \E p \in IdVals, caller \in Addr : verify_property(p, caller)
    \/ \E p \in IdVals, shares \in ShareVals, buyer \in Addr,
          caller \in Addr, ts \in Times :
          purchase_shares(p, shares, buyer, caller, ts)
    \/ \E p \in IdVals, from \in Addr, to \in Addr, shares \in ShareVals,
          caller \in Addr, ts \in Times :
          transfer_shares(p, from, to, shares, caller, ts)

Spec == Init /\ [][Next]_vars

\* ------------------------------------------------- helpers of the claims
Mutating == {"register_property", "verify_property",
             "purchase_shares", "transfer_shares"}

Verified(m, p) == Has(m, p) /\ m[p].is_verified

RECURSIVE SumBal(_, _, _)
SumBal(m, p, S) ==
    IF S = {} THEN 0
    ELSE LET a == CHOOSE x \in S : TRUE
         IN Bal(m, p, a) + SumBal(m, p, S \ {a})

\* --------------------------------------------------------------- claims

\* C1: every successful registerProperty returns an id greater than every
\* id returned earlier; the first id is 1, ids are consecutive and no id is
\* assigned twice: the i-th id returned is i.
C1_IdsSequentialNeverReused ==
    \A i \in 1 .. Len(issued) : issued[i] = i

\* C2: once property p is verified it is verified in every later state,
\* whatever operation follows.
C2_VerifiedNeverReverts ==
    [][\A p \in IdVals : Verified(props, p) => Verified(props', p)]_vars

\* C3: every successful purchaseShares(p, ...) and every successful
\* transferShares(p, ...) happens in a state where p is registered and
\* verified.
C3_TradeOnlyWhenVerified ==
    [][call'.op \in {"purchase_shares", "transfer_shares"} /\ result' = "ok"
           => Verified(props, call'.property_id)]_vars

\* C4: every successful transferShares(p, from, to, shares), for every
\* from and to, leaves the sum of the balances of p over all owners as it
\* was.
C4_TransferConservesShares ==
    [][call'.op = "transfer_shares" /\ result' = "ok"
           => SumBal(owns', call'.property_id, Addr)
                  = SumBal(owns, call'.property_id, Addr)]_vars

\* C5: for every registered property p the sum of the shares of all
\* ownership records of p does not exceed p's total_shares.
C5_SharesWithinSupply ==
    \A p \in DOMAIN props : SumBal(owns, p, Addr) <= props[p].total_shares

\* C6: while no admin is set no mutating operation has succeeded: the
\* counter is 0, no property or ownership record exists and the stats are
\* the zero record.
C6_NothingBeforeInitialize ==
    admin = NoAdmin =>
        /\ ~(call.op \in Mutating /\ result = "ok")
        /\ counter = 0
        /\ props = EmptyMap
        /\ owns = EmptyMap
        /\ \A a \in Addr : userProps[a] = << >>
        /\ get_property_stats = ZeroStats

\* C7: initialize succeeds only while no admin is set; once an admin is set
\* every initialize, with the same or another admin, fails with
\* AlreadyInitialized and leaves the whole storage unchanged, and the admin
\* never changes after it is first set.
C7_InitializeOnce ==
    [][/\ admin # NoAdmin => admin' = admin
       /\ call'.op = "initialize" =>
             /\ result' = "ok" => admin = NoAdmin /\ admin' = call'.admin
             /\ admin # NoAdmin =>
                   result' = "AlreadyInitialized" /\ UNCHANGED storage]_vars

C7_Witness ==
    /\ call.op = "initialize"
    /\ result = "AlreadyInitialized"
    /\ props # EmptyMap

\* C8: verifyProperty changes the storage only when the invoker is the
\* admin, purchaseShares only when it is the buyer, transferShares only
\* when it is `from`; an owner's balance decreases only in a transfer from
\* that owner invoked by that owner, and a property becomes verified only
\* in a verifyProperty invoked by the admin.
C8_AuthorizationFailsClosed ==
    [][/\ call'.op = "verify_property" /\ storage' # storage
             => call'.caller = admin
       /\ call'.op = "purchase_shares" /\ storage' # storage
             => call'.caller = call'.buyer
       /\ call'.op = "transfer_shares" /\ storage' # storage
             => call'.caller = call'.from
       /\ \A p \in IdVals, o \in Addr :
             Bal(owns', p, o) < Bal(owns, p, o)
                 => /\ call'.op = "transfer_shares"
                    /\ call'.property_id = p
                    /\ call'.from = o
                    /\ call'.caller = o
       /\ \A p \in IdVals :
             ~Verified(props, p) /\ Verified(props', p)
                 => /\ call'.op = "verify_property"
                    /\ call'.property_id = p
                    /\ admin # NoAdmin
                    /\ call'.caller = admin]_vars

C8_Witness ==
    /\ call.op = "transfer_shares"
    /\ result = "NotAuthorized"
    /\ Bal(owns, call.property_id, call.from) >= call.shares
    /\ call.shares > 0

\* C9 as stated: purchaseShares(p, shares, buyer) fails with NotFound when
\* p is not registered and with NotVerified when p is registered but
\* unverified, leaving the whole storage unchanged.
C9_PurchaseErrorsAsStated ==
    [][call'.op = "purchase_shares" =>
          /\ ~Has(props, call'.property_id) =>
                result' = "NotFound" /\ UNCHANGED storage
          /\ Has(props, call'.property_id)
                /\ ~props[call'.property_id].is_verified =>
                result' = "NotVerified" /\ UNCHANGED storage]_vars

\* C9 amended: a purchaseShares(p, shares, buyer) that the buyer has
\* authorized fails with NotFound when p is not registered and with
\* NotVerified when p is registered but unverified (one the buyer has not
\* authorized fails with NotAuthorized first); in every one of these cases
\* the whole storage is unchanged.
C9_PurchaseErrors ==
    [][call'.op = "purchase_shares" =>
          /\ ~Has(props, call'.property_id) =>
                /\ result' = IF call'.caller = call'.buyer THEN "NotFound"
                             ELSE "NotAuthorized"
                /\ UNCHANGED storage
          /\ Has(props, call'.property_id)
                /\ ~props[call'.property_id].is_verified =>
                /\ result' = IF call'.caller = call'.buyer THEN "NotVerified"
                             ELSE "NotAuthorized"
                /\ UNCHANGED storage]_vars

C9_Witness ==
    /\ call.op = "purchase_shares"
    /\ result = "NotVerified"
    /\ call.caller = call.buyer
    /\ Has(props, call.property_id)
    /\ ~props[call.property_id].is_verified

\* C10 as stated: transferShares(p, from, to, shares) fails with NoBalance
\* when from has no ownership record for p and with InsufficientShares when
\* from's balance is less than shares, leaving the balances, the property
\* indexes and the stats unchanged.
C10_TransferErrorsAsStated ==
    [][call'.op = "transfer_shares" =>
          /\ ~Has(owns, <<call'.property_id, call'.from>>) =>
                result' = "NoBalance" /\ UNCHANGED <<owns, userProps, stats>>
          /\ Has(owns, <<call'.property_id, call'.from>>)
                /\ owns[<<call'.property_id, call'.from>>].shares < call'.shares =>
                /\ result' = "InsufficientShares"
                /\ UNCHANGED <<owns, userProps, stats>>]_vars

\* C10 amended: a transferShares(p, from, to, shares) that from has
\* authorized fails with NoBalance when from has no ownership record for p
\* and with InsufficientShares when from's balance is less than shares (one
\* that from has not authorized fails with NotAuthorized first); in every
\* one of these cases the balances, the property indexes and the stats are
\* unchanged.
C10_TransferErrors ==
    [][call'.op = "transfer_shares" =>
          /\ ~Has(owns, <<call'.property_id, call'.from>>) =>
                /\ result' = IF call'.caller = call'.from THEN "NoBalance"
                             ELSE "NotAuthorized"
                /\ UNCHANGED <<owns, userProps, stats>>
          /\ Has(owns, <<call'.property_id, call'.from>>)
                /\ owns[<<call'.property_id, call'.from>>].shares < call'.shares =>
                /\ result' = IF call'.caller = call'.from
                             THEN "InsufficientShares" ELSE "NotAuthorized"
                /\ UNCHANGED <<owns, userProps, stats>>]_vars

C10_Witness ==
    /\ call.op = "transfer_shares"
    /\ result = "InsufficientShares"
    /\ call.caller = call.from
    /\ Bal(owns, call.property_id, call.from) > 0
    /\ Bal(owns, call.property_id, call.from) < call.shares

\* C11: a verifyProperty(p) invoked by the admin fails with NotFound when p
\* is not registered and with AlreadyVerified when p is verified, leaving
\* the whole storage unchanged; when p is registered and unverified it
\* succeeds, sets is_verified of p, adds exactly 1 to verified_properties
\* and changes nothing else.
C11_VerifyOutcomes ==
    [][call'.op = "verify_property" /\ admin # NoAdmin /\ call'.caller = admin =>
          LET p == call'.property_id
          IN /\ ~Has(props, p) =>
                   result' = "NotFound" /\ UNCHANGED storage
             /\ Verified(props, p) =>
                   result' = "AlreadyVerified" /\ UNCHANGED storage
             /\ Has(props, p) /\ ~props[p].is_verified =>
                   /\ result' = "ok"
                   /\ props' = [props EXCEPT ![p].is_verified = TRUE]
                   /\ stats' = [stats EXCEPT !.verified_properties = @ + 1]
                   /\ UNCHANGED <<admin, counter, owns, userProps>>]_vars

C11_Witness ==
    /\ call.op = "verify_property"
    /\ result = "AlreadyVerified"
    /\ call.caller = admin
    /\ Verified(props, call.property_id)
    /\ stats.verified_properties = 1

\* C12: every successful purchaseShares(p, shares, buyer) sets the buyer's
\* balance for p to the previous balance (0 without a record) plus shares
\* and adds exactly 1 to total_transactions; it adds exactly 1 to
\* total_owners and appends p to the buyer's index if no record (p, buyer)
\* existed before, and leaves both as they were if one existed.
C12_PurchaseEffect ==
    [][call'.op = "purchase_shares" /\ result' = "ok" =>
          LET p == call'.property_id
              b == call'.buyer
          IN /\ Has(owns', <<p, b>>)
             /\ owns'[<<p, b>>].shares = Bal(owns, p, b) + call'.shares
             /\ stats'.total_transactions = stats.total_transactions + 1
             /\ ~Has(owns, <<p, b>>) =>
                   /\ stats'.total_owners = stats.total_owners + 1
                   /\ userProps' = [userProps EXCEPT ![b] = Append(@, p)]
             /\ Has(owns, <<p, b>>) =>
                   /\ stats'.total_owners = stats.total_owners
                   /\ userProps' = userProps]_vars

\* a second purchase by the same buyer: balance 1 + 1, one owner event, two
\* transactions
C12_Witness ==
    /\ call.op = "purchase_shares"
    /\ result = "ok"
    /\ call.shares = 1
    /\ Bal(owns, call.property_id, call.buyer) = 2
    /\ stats.total_owners = 1
    /\ stats.total_transactions = 2

Max(a, b) == IF a >= b THEN a ELSE b
Min(a, b) == IF a <= b THEN a ELSE b

\* C14: for every start and limit, listProperties(start, limit) returns,
\* in ascending id order, exactly the stored properties with ids
\* max(1, start) .. min(start + limit, counter): none omitted, at most
\* limit + 1 entries, no id <= 0 and none above the counter.  (A view is an
\* invocation of its own: it reads the storage between two invocations.)
C14_ListPropertiesRange ==
    call = Idle =>
    \A start \in StartVals, limit \in LimitVals :
        LET r == list_properties(start, limit)
            lo == Max(1, start)
            hi == Min(start + limit, counter)
        IN /\ Len(r) = Max(0, hi - lo + 1)
           /\ Len(r) <= limit + 1
           /\ \A k \in 1 .. Len(r) :
                 /\ r[k].property_id = lo + k - 1
                 /\ r[k].property_id \in 1 .. counter
                 /\ Has(props, lo + k - 1)
                 /\ r[k] = props[lo + k - 1]

\* two properties listed: all of them, a page cut by the limit, and a page
\* cut by the counter
C14_Witness ==
    /\ call = Idle
    /\ counter = 2
    /\ Len(list_properties(0, 2)) = 2
    /\ Len(list_properties(1, 0)) = 1
    /\ Len(list_properties(2, 2)) = 1
    /\ list_properties(2, 2)[1].is_verified

\* the sum of the shares of the ownership records of m that owner o holds
\* for the properties of P
RECURSIVE SumOwned(_, _, _)
SumOwned(m, o, P) ==
    IF P = {} THEN 0
    ELSE LET p == CHOOSE x \in P : TRUE
         IN Bal(m, p, o) + SumOwned(m, o, P \ {p})

RecordsOf(m, o) == {k[1] : k \in {x \in DOMAIN m : x[2] = o}}

\* get_ownership answers a missing record with shares = 0, purchase_time = 0
OwnershipDefault ==
    \A p \in IdVals, o \in Addr :
        ~Has(owns, <<p, o>>) =>
            /\ get_ownership(p, o).shares = 0
            /\ get_ownership(p, o).purchase_time = 0

\* C15 as stated: for every owner getTotalSharesOwned(owner) returns the
\* sum of the shares of all ownership records of that owner, and
\* getOwnership(p, owner) returns shares = 0 and purchase_time = 0 when no
\* record exists.
C15_TotalSharesOwnedAsStated ==
    call = Idle =>
        /\ \A o \in Addr :
              /\ get_total_shares_owned(o).ok
              /\ get_total_shares_owned(o).value
                     = SumOwned(owns, o, RecordsOf(owns, o))
        /\ OwnershipDefault

\* C15 amended: for every owner getTotalSharesOwned(owner) returns the sum
\* of the shares of all ownership records of that owner whenever that sum
\* fits in a u64, and fails when it does not; getOwnership(p, owner)
\* returns shares = 0 and purchase_time = 0 when no record exists.
C15_TotalSharesOwned ==
    call = Idle =>
        /\ \A o \in Addr :
              LET sum == SumOwned(owns, o, RecordsOf(owns, o))
              IN IF sum <= MaxU
                 THEN /\ get_total_shares_owned(o).ok
                      /\ get_total_shares_owned(o).value = sum
                 ELSE ~get_total_shares_owned(o).ok
        /\ OwnershipDefault

\* an owner with records in two properties, the second one not empty
C15_Witness ==
    /\ call = Idle
    /\ \E o \in Addr :
          /\ Len(userProps[o]) = 2
          /\ Bal(owns, userProps[o][2], o) > 0
          /\ get_total_shares_owned(o).ok
          /\ get_total_shares_owned(o).value = 2
          /\ \E p \in IdVals, a \in Addr : ~Has(owns, <<p, a>>)

\* the index u lists, for every owner, each property of the owner's records
\* in m once and nothing else
IndexOk(m, u) ==
    \A o \in Addr :
        /\ \A i, j \in 1 .. Len(u[o]) : u[o][i] = u[o][j] => i = j
        /\ {u[o][i] : i \in 1 .. Len(u[o])} = RecordsOf(m, o)

IsPrefix(s, t) == Len(s) <= Len(t) /\ s = SubSeq(t, 1, Len(s))

\* C16: for every owner the property index has no duplicate id, holds p
\* iff an ownership record (p, owner) exists, and only grows at its end:
\* the index before a step is a prefix of the index after it.
C16_IndexAppendOnly ==
    [][/\ IndexOk(owns, userProps)
       /\ IndexOk(owns', userProps')
       /\ \A o \in Addr : IsPrefix(userProps[o], userProps'[o])]_vars

\* a transfer has indexed its recipient and emptied the sender's balance,
\* whose index entry stays
C16_Witness ==
    /\ call.op = "transfer_shares"
    /\ result = "ok"
    /\ call.from # call.to
    /\ userProps[call.to] = <<call.property_id>>
    /\ userProps[call.from] = <<call.property_id>>
    /\ Bal(owns, call.property_id, call.from) = 0
    /\ Bal(owns, call.property_id, call.to) > 0

\* C17: every property id in an owner's index is a property in which the
\* owner has at some point held a balance > 0, and total_owners (owner
\* events) grows only in a step in which some pair (property, owner) holds
\* a balance > 0 for the first time; operations on 0 shares included.
C17_IndexOnlyNonzeroHoldings ==
    [][/\ \A o \in Addr : \A i \in 1 .. Len(userProps'[o]) :
             <<userProps'[o][i], o>> \in everHeld'
       /\ stats'.total_owners > stats.total_owners =>
             everHeld' \ everHeld # {}]_vars

\* C18: verified_properties is the number of stored property records
\* whose is_verified flag is set, and is at most total_properties.
C18_VerifiedCountMatches ==
    /\ stats.verified_properties
           = Cardinality({p \in DOMAIN props : props[p].is_verified})
    /\ stats.verified_properties <= stats.total_properties

\* C19: total_properties equals the property counter and the number of
\* stored property records, and the stored records are those of the ids
\* 1 .. counter.
C19_CounterMatchesRecords ==
    /\ stats.total_properties = counter
    /\ stats.total_properties = Cardinality(DOMAIN props)
    /\ DOMAIN props = 1 .. counter

\* the pair whose ownership record a successful call writes for its
\* receiver; no pair for any other step
Received(c, res) ==
    IF c.op = "purchase_shares" /\ res = "ok"
    THEN {<<c.property_id, c.buyer>>}
    ELSE IF c.op = "transfer_shares" /\ res = "ok"
    THEN {<<c.property_id, c.to>>}
    ELSE {}

\* C20: total_owners is the number of ownership records; the records are
\* the pairs (property, owner) that a purchase or an incoming transfer has
\* reached so far (a step adds the receiving pair of its call and removes
\* none); a transfer to a recipient that has a record, from = to included,
\* leaves total_owners as it was.
C20_OwnerEventsCountRecords ==
    [][/\ stats.total_owners = Cardinality(DOMAIN owns)
       /\ stats'.total_owners = Cardinality(DOMAIN owns')
       /\ DOMAIN owns' = (DOMAIN owns) \cup Received(call', result')
       /\ (/\ call'.op = "transfer_shares"
           /\ result' = "ok"
           /\ Has(owns, <<call'.property_id, call'.to>>))
          => stats'.total_owners = stats.total_owners]_vars

\* a transfer of a holder to itself went through with one owner counted
C20_Witness ==
    /\ call.op = "transfer_shares"
    /\ result = "ok"
    /\ call.from = call.to
    /\ stats.total_owners = 1
    /\ stats.total_transactions = 2
    /\ Cardinality(DOMAIN owns) = 1
====
